---- MODULE Spec2Model ----
(***************************************************************************)
(* Resume ingestion, resume deletion, candidate search and chat            *)
(* shortlisting of the hiring platform, modelled over the three stores the *)
(* services write: the profiles table, the "resumes" storage bucket and    *)
(* the "resumes" Qdrant collection, plus the chat_messages table.          *)
(*                                                                         *)
(* The repository carries two copies of the resume service and of the      *)
(* Qdrant helper.  A deployment is built from one copy of each; the        *)
(* variable build records which.                                           *)
(***************************************************************************)
EXTENDS Integers, Sequences, FiniteSets, TLC

VARIABLES build, profiles, files, vectors, collections, now, nextUuid,
          messages, last, run, inflight

vars == <<build, profiles, files, vectors, collections, now, nextUuid,
          messages, last, run, inflight>>

(***************************************************************************)
(* Bounds                                                                  *)
(***************************************************************************)
MaxTime == 2
MaxMsgs == 2
\* profile fetches of one mounted UserProvider
MaxFetches == 5

(***************************************************************************)
(* Program constants                                                       *)
(***************************************************************************)
MinTextLen == 50
ShortlistWidth == 20
DefaultLimit == 10

Candidate == "candidate"
Recruiter == "recruiter"

Candidates == {"c1", "c2"}
Recruiters == {"r1"}
Users == Candidates \cup Recruiters

NullUrl == <<>>
NullText == <<>>
NullId == ""
NoPath == <<>>

\* Extracted text, as <<length, surrounding whitespace>>.
Texts == {<<0, 0>>, <<60, 20>>, <<49, 0>>, <<50, 0>>}
Pdfs == [ok : {TRUE}, text : Texts] \cup [ok : {FALSE}, text : {<<0, 0>>}]
FileNames == {<<"cv.pdf">>, <<"docs", "cv.pdf">>}

ServiceBuilds == {"part_004", "resumeService.ts"}
QdrantBuilds == {"part_001", "qdrant.ts"}

\* Outcome of each external call of one invocation: TRUE when it succeeds.
Steps == {"profileRead", "upload", "signedUrl", "download", "initColl",
          "embed", "upsert", "update", "vecDelete", "fileRemove"}
\* A handler stops at the first step that fails, so a plan names that step
\* (or none) and the outcomes of the two cleanup deletes.
PrimarySteps == Steps \ {"vecDelete", "fileRemove"}
PlanOf(failAt, vecDelete, fileRemove) ==
  [s \in Steps |-> IF s = "vecDelete" THEN vecDelete
                   ELSE IF s = "fileRemove" THEN fileRemove
                   ELSE s # failAt]
\* The plans that differ for processResume: part_004 never fetches the file
\* back nor removes it, and only a failed profile update runs deleteResume.
ProcessPlans(b) ==
  IF b.service = "part_004"
    THEN {PlanOf(s, TRUE, TRUE) :
            s \in (PrimarySteps \ {"signedUrl", "download"}) \cup {"none"}}
         \cup {PlanOf("update", FALSE, TRUE)}
    ELSE {PlanOf(s, TRUE, fr) : s \in PrimarySteps \cup {"none"}, fr \in BOOLEAN}
         \cup {PlanOf("update", FALSE, fr) : fr \in BOOLEAN}
\* deleteResumeForUser reads the profile, runs the two deletes, updates it
DeletePlans ==
  {PlanOf(s, vd, fr) :
     s \in {"profileRead", "update", "none"}, vd \in BOOLEAN, fr \in BOOLEAN}

Call(name, ok) == <<name, ok>>

\* String.prototype.trim().length of an extracted text
TrimLen(text) == text[1] - text[2]

\* `${userId}/${timestamp}_${fileName}` as the list of its "/" segments
StoragePath(userId, timestamp, fileName) ==
  <<userId, ToString(timestamp) \o "_" \o Head(fileName)>> \o Tail(fileName)

\* storage.getPublicUrl(path).publicUrl, as the segments of its pathname
PublicUrl(storagePath) ==
  <<"storage", "v1", "object", "public", "resumes">> \o storagePath

\* the storage path a public URL points at
UrlTarget(url) == SubSeq(url, 6, Len(url))

\* new URL(resumeUrl).pathname.split("/").slice(-2).join("/")
PathFromUrl(url) ==
  IF Len(url) <= 2 THEN url ELSE SubSeq(url, Len(url) - 1, Len(url))

World == [profiles |-> profiles, files |-> files, vectors |-> vectors,
          collections |-> collections, now |-> now, nextUuid |-> nextUuid,
          messages |-> messages]

HasVector(vecs, userId) == \E p \in vecs : p.userId = userId

\* .from("profiles").select(...).eq("id", userId).single() finds a row
HasProfile(w, userId) == userId \in DOMAIN w.profiles

(***************************************************************************)
(* utils/qdrant                                                            *)
(***************************************************************************)
\* initializeCollection: create "resumes" only when it is absent.
initializeCollection(w, f) ==
  IF ~f["initColl"]
    THEN [ok |-> FALSE, w |-> w, calls |-> <<Call("qdrant.getCollections", FALSE)>>]
    ELSE IF "resumes" \in w.collections
      THEN [ok |-> TRUE, w |-> w, calls |-> <<Call("qdrant.getCollections", TRUE)>>]
      ELSE [ok |-> TRUE,
            w |-> [w EXCEPT !.collections = @ \cup {"resumes"}],
            calls |-> <<Call("qdrant.getCollections", TRUE),
                        Call("qdrant.createCollection", TRUE)>>]

\* qdrantClient.upsert: overwrite by point id
Upsert(vecs, pointId, userId) ==
  {p \in vecs : p.id # pointId} \cup {[id |-> pointId, userId |-> userId]}

\* The point id storeResume chooses: the user id (part_001) ...
PointIdUser(w, userId) == userId
\* ... or a fresh uuidv4() (qdrant.ts)
PointIdUuid(w, userId) == "uuid-" \o ToString(w.nextUuid)

StoreWith(w, userId, pointId, f) ==
  LET i == initializeCollection(w, f) IN
  IF ~i.ok THEN [ok |-> FALSE, w |-> i.w, pointId |-> NullId, calls |-> i.calls]
  ELSE LET c1 == Append(i.calls, Call("openai.embeddings", f["embed"])) IN
    IF ~f["embed"] THEN [ok |-> FALSE, w |-> i.w, pointId |-> NullId, calls |-> c1]
    ELSE LET c2 == Append(c1, Call("qdrant.upsert", f["upsert"])) IN
      IF ~f["upsert"] THEN [ok |-> FALSE, w |-> i.w, pointId |-> NullId, calls |-> c2]
      ELSE [ok |-> TRUE,
            w |-> [i.w EXCEPT !.vectors = Upsert(@, pointId, userId)],
            pointId |-> pointId, calls |-> c2]

\* storeResume of unnamed/part_001
storeResume(w, userId, f) == StoreWith(w, userId, PointIdUser(w, userId), f)

\* storeResume of utils/qdrant.ts
storeResumeUuid(w, userId, f) ==
  StoreWith([w EXCEPT !.nextUuid = @ + 1], userId, PointIdUuid(w, userId), f)

StoreResume(b, w, userId, f) ==
  IF b.qdrant = "part_001" THEN storeResume(w, userId, f)
  ELSE storeResumeUuid(w, userId, f)

\* deleteResume: delete-by-id; throws when the client call fails
deleteResume(w, pointId, f) ==
  IF f["vecDelete"]
    THEN [ok |-> TRUE, w |-> [w EXCEPT !.vectors = {p \in @ : p.id # pointId}],
          calls |-> <<Call("qdrant.delete", TRUE)>>]
    ELSE [ok |-> FALSE, w |-> w, calls |-> <<Call("qdrant.delete", FALSE)>>]

\* storage.from("resumes").remove([path]); the {error} it returns is never read
StorageRemove(w, path, f) ==
  IF f["fileRemove"]
    THEN [w |-> [w EXCEPT !.files = @ \ {path}], calls |-> <<Call("storage.remove", TRUE)>>]
    ELSE [w |-> w, calls |-> <<Call("storage.remove", FALSE)>>]

(***************************************************************************)
(* api/services/resumeService                                              *)
(***************************************************************************)
Resp(op, w, userId, status, error, calls, storagePath, pointId) ==
  [w |-> w,
   res |-> [op |-> op, user |-> userId, status |-> status, error |-> error,
            calls |-> calls, storagePath |-> storagePath, pointId |-> pointId,
            data |-> <<>>, prompt |-> <<>>, results |-> <<>>, query |-> ""]]

SetResume(w, userId, url, text, pointId) ==
  [w EXCEPT !.profiles[userId] =
     [@ EXCEPT !.resume_url = url, !.resume_text = text,
               !.qdrant_point_id = pointId]]

\* processResume of unnamed/part_004: extract, validate, upload, store, update
\* a role check that lets every role through
IsAnyRole(profile) == TRUE

\* profile.role !== UserRole.Candidate, negated
IsCandidate(profile) == profile.role = Candidate

processResume(b, w, userId, pdf, fileName, f) ==
  LET R(w2, st, err, calls, path, pid) ==
        Resp("processResume", w2, userId, st, err, calls, path, pid)
      c1 == <<Call("profiles.select", f["profileRead"])>>
  IN
  IF ~f["profileRead"] \/ ~HasProfile(w, userId)
    THEN R(w, 404, "User profile not found", c1, NoPath, NullId)
  ELSE IF ~IsCandidate(w.profiles[userId])
    THEN R(w, 403, "Only candidates can upload resumes", c1, NoPath, NullId)
  ELSE LET c2 == Append(c1, Call("pdfParse", pdf.ok)) IN
  IF ~pdf.ok THEN R(w, 500, "Failed to extract text from PDF", c2, NoPath, NullId)
  ELSE IF TrimLen(pdf.text) < MinTextLen
    THEN R(w, 400, "insufficient text content", c2, NoPath, NullId)
  ELSE LET storagePath == StoragePath(userId, w.now, fileName)
           c3 == Append(c2, Call("storage.upload", f["upload"])) IN
  IF ~f["upload"] THEN R(w, 500, "Failed to upload resume file", c3, storagePath, NullId)
  ELSE LET w1 == [w EXCEPT !.files = @ \cup {storagePath}]
           resumeUrl == PublicUrl(storagePath)
           s == StoreResume(b, w1, userId, f)
           c4 == c3 \o s.calls IN
  IF ~s.ok
    THEN R(s.w, 500, "Failed to store resume in vector database", c4, storagePath, NullId)
  ELSE LET c5 == Append(c4, Call("profiles.update", f["update"])) IN
  IF f["update"]
    THEN R(SetResume(s.w, userId, resumeUrl, pdf.text, s.pointId), 200, "",
           c5, storagePath, s.pointId)
    ELSE LET d == deleteResume(s.w, s.pointId, f) IN
         R(d.w, 500, "Failed to update profile with resume information",
           c5 \o d.calls, storagePath, s.pointId)

\* processResume of api/services/resumeService.ts: upload, sign, extract,
\* validate, store, update; every failure after the upload removes the file
processResumeSvc(b, w, userId, pdf, fileName, f) ==
  LET R(w2, st, err, calls, path, pid) ==
        Resp("processResume", w2, userId, st, err, calls, path, pid)
      c1 == <<Call("profiles.select", f["profileRead"])>>
  IN
  IF ~f["profileRead"] \/ ~HasProfile(w, userId)
    THEN R(w, 404, "User profile not found", c1, NoPath, NullId)
  ELSE IF ~IsCandidate(w.profiles[userId])
    THEN R(w, 403, "Only candidates can upload resumes", c1, NoPath, NullId)
  ELSE LET storagePath == StoragePath(userId, w.now, fileName)
           c2 == Append(c1, Call("storage.upload", f["upload"])) IN
  IF ~f["upload"] THEN R(w, 500, "Failed to upload resume file", c2, storagePath, NullId)
  ELSE LET w1 == [w EXCEPT !.files = @ \cup {storagePath}]
           resumeUrl == PublicUrl(storagePath)
           rm == StorageRemove(w1, storagePath, f)
           c3 == Append(c2, Call("storage.createSignedUrl", f["signedUrl"])) IN
  IF ~f["signedUrl"]
    THEN R(rm.w, 500, "Failed to generate signed URL for resume extraction",
           c3 \o rm.calls, storagePath, NullId)
  ELSE LET c4 == Append(c3, Call("axios.get", f["download"]))
           c5 == IF f["download"] THEN Append(c4, Call("pdfParse", pdf.ok)) ELSE c4 IN
  IF ~f["download"] \/ ~pdf.ok
    THEN R(rm.w, 500, "Failed to extract text from PDF URL", c5 \o rm.calls,
           storagePath, NullId)
  ELSE IF TrimLen(pdf.text) < MinTextLen
    THEN R(rm.w, 400, "insufficient text content", c5 \o rm.calls, storagePath, NullId)
  ELSE LET s == StoreResume(b, w1, userId, f)
           c6 == c5 \o s.calls
           rm2 == StorageRemove(s.w, storagePath, f) IN
  IF ~s.ok
    THEN R(rm2.w, 500, "Failed to store resume in vector database",
           c6 \o rm2.calls, storagePath, NullId)
  ELSE LET c7 == Append(c6, Call("profiles.update", f["update"])) IN
  IF f["update"]
    THEN R(SetResume(s.w, userId, resumeUrl, pdf.text, s.pointId), 200, "",
           c7, storagePath, s.pointId)
    ELSE LET d == deleteResume(s.w, s.pointId, f)
             rm3 == StorageRemove(d.w, storagePath, f) IN
         R(rm3.w, 500, "Failed to update profile with resume information",
           c7 \o d.calls \o rm3.calls, storagePath, s.pointId)

\* deleteResumeForUser with the vector delete left outside its try/catch: a
\* failed delete aborts the call before the profile is cleared
deleteResumeForUserAbort(w, userId, f) ==
  LET R(w2, st, err, calls) ==
        Resp("deleteResumeForUser", w2, userId, st, err, calls, NoPath, NullId)
      c1 == <<Call("profiles.select", f["profileRead"])>>
  IN
  IF ~f["profileRead"] \/ ~HasProfile(w, userId)
    THEN R(w, 404, "User profile not found", c1)
  ELSE LET qdrantPointId == w.profiles[userId].qdrant_point_id
           resumeUrl == w.profiles[userId].resume_url IN
  IF qdrantPointId = NullId /\ resumeUrl = NullUrl
    THEN R(w, 404, "No resume found for this user", c1)
  ELSE LET d == IF qdrantPointId # NullId THEN deleteResume(w, qdrantPointId, f)
                ELSE [ok |-> TRUE, w |-> w, calls |-> <<>>]
           path == PathFromUrl(resumeUrl)
           rm == IF resumeUrl # NullUrl /\ path # <<>>
                   THEN StorageRemove(d.w, path, f)
                   ELSE [w |-> d.w, calls |-> <<>>]
           c2 == Append(c1 \o d.calls \o rm.calls, Call("profiles.update", f["update"])) IN
  IF ~d.ok THEN R(d.w, 500, "Failed to delete resume", c1 \o d.calls)
  ELSE IF ~f["update"]
    THEN R(rm.w, 500, "Failed to update profile after resume deletion", c2)
    ELSE R(SetResume(rm.w, userId, NullUrl, NullText, NullId), 200, "", c2)

\* deleteResumeForUser (the two copies of the service agree on it)
deleteResumeForUser(w, userId, f) ==
  LET R(w2, st, err, calls) ==
        Resp("deleteResumeForUser", w2, userId, st, err, calls, NoPath, NullId)
      c1 == <<Call("profiles.select", f["profileRead"])>>
  IN
  IF ~f["profileRead"] \/ ~HasProfile(w, userId)
    THEN R(w, 404, "User profile not found", c1)
  ELSE LET qdrantPointId == w.profiles[userId].qdrant_point_id
           resumeUrl == w.profiles[userId].resume_url IN
  IF qdrantPointId = NullId /\ resumeUrl = NullUrl
    THEN R(w, 404, "No resume found for this user", c1)
  ELSE LET d == IF qdrantPointId # NullId THEN deleteResume(w, qdrantPointId, f)
                ELSE [ok |-> TRUE, w |-> w, calls |-> <<>>]
           path == PathFromUrl(resumeUrl)
           rm == IF resumeUrl # NullUrl /\ path # <<>>
                   THEN StorageRemove(d.w, path, f)
                   ELSE [w |-> d.w, calls |-> <<>>]
           c2 == Append(c1 \o d.calls \o rm.calls, Call("profiles.update", f["update"])) IN
  IF ~f["update"]
    THEN R(rm.w, 500, "Failed to update profile after resume deletion", c2)
    ELSE R(SetResume(rm.w, userId, NullUrl, NullText, NullId), 200, "", c2)

(***************************************************************************)
(* Candidate search: utils/qdrant searchResumes and                        *)
(* resumeService.searchCandidateResumes                                    *)
(***************************************************************************)
Queries == {"", " ", "react"}
Messages == {" ", "react"}
Limits == {1, DefaultLimit}
Scores == {1, 2}
ErrMsgs == {"timeout", "permission denied"}

\* query.trim()
Trim(query) == IF query \in {"", " "} THEN "" ELSE query

\* rows come back in table order
UserOrder == <<"c1", "c2", "r1">>

\* What qdrantClient.search can answer: the points of the collection, nearest
\* first, with non-increasing scores.
Hits(vecs) ==
  LET n == Cardinality(vecs) IN
  {h \in [1..n -> [point : vecs, score : Scores]] :
     /\ \A i, j \in 1..n : i # j => h[i].point # h[j].point
     /\ \A i, j \in 1..n : i < j => h[i].score >= h[j].score}

Take(s, k) == IF Len(s) <= k THEN s ELSE SubSeq(s, 1, k)

\* searchResumes of unnamed/part_001: empty-query short circuit, userId read
\* from the point id, every failure swallowed into []
searchResumes(w, query, limit, f, hits) ==
  IF Trim(query) = "" THEN [w |-> w, results |-> <<>>, calls |-> <<>>]
  ELSE LET i == initializeCollection(w, f) IN
  IF ~i.ok THEN [w |-> i.w, results |-> <<>>, calls |-> i.calls]
  ELSE LET c1 == Append(i.calls, Call("openai.embeddings", f["embed"])) IN
  IF ~f["embed"] \/ ~f["embedVector"] THEN [w |-> i.w, results |-> <<>>, calls |-> c1]
  ELSE LET c2 == Append(c1, Call("qdrant.search", f["search"])) IN
  IF ~f["search"] THEN [w |-> i.w, results |-> <<>>, calls |-> c2]
  ELSE [w |-> i.w,
        results |-> [k \in 1..Len(Take(hits, limit)) |->
                       [userId |-> hits[k].point.id, similarity |-> hits[k].score]],
        calls |-> c2]

\* searchResumes of utils/qdrant.ts: no short circuit, userId read from the
\* payload, every failure swallowed into []
searchResumesPayload(w, query, limit, f, hits) ==
  LET i == initializeCollection(w, f) IN
  IF ~i.ok THEN [w |-> i.w, results |-> <<>>, calls |-> i.calls]
  ELSE LET c1 == Append(i.calls, Call("openai.embeddings", f["embed"])) IN
  IF ~f["embed"] THEN [w |-> i.w, results |-> <<>>, calls |-> c1]
  ELSE LET c2 == Append(c1, Call("qdrant.search", f["search"] /\ f["embedVector"])) IN
  IF ~f["search"] \/ ~f["embedVector"] THEN [w |-> i.w, results |-> <<>>, calls |-> c2]
  ELSE [w |-> i.w,
        results |-> [k \in 1..Len(Take(hits, limit)) |->
                       [userId |-> hits[k].point.userId, similarity |-> hits[k].score]],
        calls |-> c2]

SearchResumes(b, w, query, limit, f, hits) ==
  IF b.qdrant = "part_001" THEN searchResumes(w, query, limit, f, hits)
  ELSE searchResumesPayload(w, query, limit, f, hits)

UserIds(results) == {results[k].userId : k \in 1..Len(results)}

\* searchResults.find(r => r.userId === id): the first match, or none
FindFirst(results, id) ==
  LET ks == {k \in 1..Len(results) : results[k].userId = id} IN
  IF ks = {} THEN 0 ELSE CHOOSE k \in ks : \A m \in ks : k <= m

RECURSIVE InsertDesc(_, _)
InsertDesc(x, s) ==
  IF s = <<>> THEN <<x>>
  ELSE IF Head(s).similarity >= x.similarity
    THEN <<Head(s)>> \o InsertDesc(x, Tail(s))
    ELSE <<x>> \o s

\* the list left in the order the profile fetch returned it
Unsorted(s) == s

\* candidates.sort((a, b) => b.similarity - a.similarity): stable, descending
RECURSIVE SortDesc(_)
SortDesc(s) ==
  IF s = <<>> THEN <<>>
  ELSE InsertDesc(s[Len(s)], SortDesc(SubSeq(s, 1, Len(s) - 1)))

RespData(op, w, userId, status, error, calls, data) ==
  [w |-> w,
   res |-> [op |-> op, user |-> userId, status |-> status, error |-> error,
            calls |-> calls, storagePath |-> NoPath, pointId |-> NullId,
            data |-> data, prompt |-> <<>>, results |-> <<>>, query |-> ""]]

\* the query of the call, kept with the response
WithQuery(r, query) == [r EXCEPT !.res.query = query]

\* the answer of searchResumes, kept with the response
WithResults(r, results) == [r EXCEPT !.res.results = results]

searchCandidateResumes(b, w, recruiterId, query, limit, f, hits) ==
  LET R(w2, st, err, calls, data) ==
        RespData("searchCandidateResumes", w2, recruiterId, st, err, calls, data)
      c1 == <<Call("profiles.select", f["profileRead"])>>
  IN
  IF ~f["profileRead"] \/ ~HasProfile(w, recruiterId)
     \/ w.profiles[recruiterId].role # Recruiter
    THEN R(w, 403, "Only recruiters can search for candidates", c1, <<>>)
  ELSE LET sr == SearchResumes(b, w, query, limit, f, hits)
           c2 == c1 \o sr.calls IN
  IF sr.results = <<>> THEN R(sr.w, 200, "", c2, <<>>)
  ELSE LET c3 == Append(c2, Call("profiles.in", f["fetch"])) IN
  IF ~f["fetch"]
    THEN WithResults(R(sr.w, 500, "Failed to fetch candidate profiles", c3, <<>>),
                     sr.results)
  ELSE LET rows == SelectSeq(UserOrder,
                     LAMBDA u : /\ u \in UserIds(sr.results)
                                /\ HasProfile(sr.w, u)
                                /\ sr.w.profiles[u].role = Candidate)
           candidates ==
             [k \in 1..Len(rows) |->
                [id |-> rows[k],
                 similarity |->
                   IF FindFirst(sr.results, rows[k]) = 0 THEN 0
                   ELSE sr.results[FindFirst(sr.results, rows[k])].similarity]]
       IN WithResults(R(sr.w, 200, "", c3, SortDesc(candidates)), sr.results)

(***************************************************************************)
(* api/services/profileService.updateUserProfile (role change)             *)
(***************************************************************************)
updateUserProfile(w, userId, profileData, f) ==
  IF ~f["update"] \/ ~HasProfile(w, userId)
    THEN RespData("updateUserProfile", w, userId, 500, "Failed to update profile",
                  <<Call("profiles.update", FALSE)>>, <<>>)
    ELSE RespData("updateUserProfile",
                  [w EXCEPT !.profiles[userId] =
                     [@ EXCEPT !.role = profileData.role,
                               !.role_selected =
                                 IF "role_selected" \in DOMAIN profileData
                                   THEN profileData.role_selected ELSE @]],
                  userId, 200, "", <<Call("profiles.update", TRUE)>>, <<>>)

(***************************************************************************)
(* Chat service: sendMessage                                               *)
(***************************************************************************)
Anon == "anon"
ChatOwner == [c \in {"chat1", "chat2"} |-> IF c = "chat1" THEN "r1" ELSE "c1"]
Chats == DOMAIN ChatOwner
LlmText == "shortlist"

MsgNoCandidates == <<"No relevant candidates found for your query. Please try a different search.">>
MsgFetchError(detail) == <<"Error fetching candidate profiles: ", detail>>
MsgNoProfiles == <<"No candidate profiles were found matching your search criteria.">>
MsgNoApiKey == <<"OpenAI API key is not configured. Please contact the administrator.">>
MsgGenericError == <<"Sorry, there was an error processing your request. Please try again later.">>

\* supabase.from("chat_messages").insert(row): appends the row, or fails
InsertMessage(w, chatId, content, role, createdAt, ok) ==
  IF ok
    THEN [w EXCEPT !.messages =
            Append(@, [id |-> Len(@) + 1, chat_id |-> chatId, content |-> content,
                       role |-> role, created_at |-> createdAt])]
    ELSE w

\* the candidate list serialized into the prompt
CandidatesForPrompt(w, rows) ==
  [k \in 1..Len(rows) |->
     [name |-> w.profiles[rows[k]].name,
      email |-> rows[k] \o "@example.com",
      github |-> "", linkedin |-> "", twitter |-> "",
      profile_link |-> w.profiles[rows[k]].resume_url]]

\* the value every return after the user insert carries (lines 351-357)
UserMessageView(userMessageData, message) ==
  <<[id |-> userMessageData.id, content |-> <<message>>,
     role |-> userMessageData.role,
     createdAt |-> userMessageData.created_at,
     chatId |-> userMessageData.chat_id]>>

\* a degraded or final reply: the assistant insert, its result not read, then
\* the 201 with the user message
Reply(w, caller, chatId, content, aiTime, ok, calls, data) ==
  RespData("sendMessage",
           InsertMessage(w, chatId, content, "assistant", aiTime, ok),
           caller, 201, "",
           Append(calls, Call("chat_messages.insert.assistant", ok)), data)

\* a catch block that gives up: what the outer catch of sendMessage answers
CaughtRethrow(w, caller, chatId, aiTime, f, calls, data) ==
  RespData("sendMessage", w, caller, 500, "Failed to send message", calls, <<>>)

\* the inner catch block: one more insert, its result not read either, then
\* the common return
Caught(w, caller, chatId, aiTime, f, calls, data) ==
  Reply(w, caller, chatId, MsgGenericError, aiTime, f["fallbackInsert"], calls, data)

\* the profiles the shortlisting fetch returns: .in("id", userIds), no role
\* filter (it is commented out)
FetchedProfiles(w, results) ==
  SelectSeq(UserOrder, LAMBDA u : u \in UserIds(results) /\ HasProfile(w, u))

\* the try block of sendMessage: search, profile fetch, prompt, LLM, reply
Shortlist(b, w1, caller, chatId, message, f, hits, detail, aiTime, c2, data) ==
  LET sr == SearchResumes(b, w1, message, ShortlistWidth, f, hits)
      c3 == c2 \o sr.calls
      Found(r) == WithResults(r, sr.results)
  IN
  IF sr.results = <<>>
    THEN Reply(sr.w, caller, chatId, MsgNoCandidates, aiTime, f["aiInsert"], c3, data)
  ELSE LET c4 == Append(c3, Call("profiles.in", f["fetch"])) IN
  IF ~f["fetch"]
    THEN Found(Reply(sr.w, caller, chatId, MsgFetchError(detail), aiTime,
                     f["aiInsert"], c4, data))
  ELSE LET rows == FetchedProfiles(sr.w, sr.results) IN
  IF rows = <<>>
    THEN Found(Reply(sr.w, caller, chatId, MsgNoProfiles, aiTime, f["aiInsert"],
                     c4, data))
  ELSE IF ~f["apiKey"]
    THEN Found(Reply(sr.w, caller, chatId, MsgNoApiKey, aiTime, f["aiInsert"],
                     c4, data))
  ELSE LET c5 == Append(c4, Call("openai.chat", f["llm"]))
           \* PROMPT_TEMPLATE with {query} and {candidates} filled in
           prompt == <<message, CandidatesForPrompt(sr.w, rows)>>
           Prompted(r) == Found([r EXCEPT !.res.prompt = prompt]) IN
  IF ~f["llm"] \/ ~f["llmText"]
    THEN Prompted(Caught(sr.w, caller, chatId, aiTime, f, c5, data))
  ELSE IF f["aiInsert"]
    THEN Prompted(Reply(sr.w, caller, chatId, <<LlmText>>, aiTime, TRUE, c5, data))
    ELSE Prompted(Caught(sr.w, caller, chatId, aiTime, f,
                         Append(c5, Call("chat_messages.insert.assistant", FALSE)),
                         data))

\* sendMessage that does not read the result of the user insert
sendMessageUnchecked(b, w, caller, chatId, message, f, hits, detail, aiTime) ==
  LET c0 == <<Call("auth.getUser", caller # Anon)>>
      c1 == Append(c0, Call("chats.select", f["chatRead"]))
      c2 == Append(c1, Call("chat_messages.insert.user", f["userInsert"]))
      w1 == InsertMessage(w, chatId, <<message>>, "user", w.now, f["userInsert"])
  IN
  IF caller = Anon
    THEN RespData("sendMessage", w, caller, 401, "Authentication required", c0, <<>>)
  ELSE IF ~f["chatRead"] \/ ChatOwner[chatId] # caller
    THEN RespData("sendMessage", w, caller, 404, "Chat not found or access denied",
                  c1, <<>>)
  ELSE Shortlist(b, w1, caller, chatId, message, f, hits, detail, aiTime, c2,
                 IF f["userInsert"]
                   THEN UserMessageView(w1.messages[Len(w1.messages)], message)
                   ELSE <<>>)

sendMessage(b, w, caller, chatId, message, f, hits, detail, aiTime) ==
  LET R(w2, st, err, calls, data) ==
        RespData("sendMessage", w2, caller, st, err, calls, data)
      c0 == <<Call("auth.getUser", caller # Anon)>>
  IN
  IF caller = Anon THEN R(w, 401, "Authentication required", c0, <<>>)
  ELSE LET c1 == Append(c0, Call("chats.select", f["chatRead"])) IN
  IF ~f["chatRead"] \/ ChatOwner[chatId] # caller
    THEN R(w, 404, "Chat not found or access denied", c1, <<>>)
  ELSE LET c2 == Append(c1, Call("chat_messages.insert.user", f["userInsert"])) IN
  IF ~f["userInsert"] THEN R(w, 500, "Failed to send message", c2, <<>>)
  ELSE
  LET w1 == InsertMessage(w, chatId, <<message>>, "user", w.now, TRUE)
      userMessageData == w1.messages[Len(w1.messages)]
  IN Shortlist(b, w1, caller, chatId, message, f, hits, detail, aiTime, c2,
               UserMessageView(userMessageData, message))

(***************************************************************************)
(* State machine                                                           *)
(***************************************************************************)
\* accounts that never confirmed the role they were given at signup
Unconfirmed == {"c2"}

NewProfile(u) ==
  [role |-> IF u \in Candidates THEN Candidate ELSE Recruiter,
   role_selected |-> u \notin Unconfirmed,
   name |-> u, resume_url |-> NullUrl, resume_text |-> NullText,
   qdrant_point_id |-> NullId]

NoCall == [op |-> "none", user |-> "", status |-> 0, error |-> "",
           calls |-> <<>>, storagePath |-> NoPath, trimLen |-> 0,
           data |-> <<>>, prompt |-> <<>>, results |-> <<>>, query |-> ""]

\* no searchResumes call in flight
IdleRun == [pc |-> "idle", query |-> "", limit |-> 0, timer |-> "off",
            aborted |-> FALSE, result |-> <<>>]

\* no request suspended between two of its awaits
InitCallers == {"request1", "request2"}
IdleSend == [pc |-> "idle", message |-> "", stamp |-> 0, calls |-> <<>>,
             data |-> <<>>]
\* a processResume and a deleteResumeForUser request not yet started, with the
\* locals each keeps across its awaits
IdleUpload == [pc |-> "idle", storagePath |-> NoPath, resumeText |-> NullText,
               qdrantPointId |-> NullId]
IdleRemoval == [pc |-> "idle", qdrantPointId |-> NullId, resumeUrl |-> NullUrl,
                status |-> 0]

\* no getUserProfile request suspended in its signed-URL refresh
IdleRefresh == [pc |-> "idle", user |-> "", resume_url |-> NullUrl]

\* the state of a UserProvider before it is mounted: useState(null),
\* useState(true), useState(null), useState(0); closure is the retryCount
\* the running refreshUser closed over
Unmounted == [pc |-> "unmounted", viewer |-> "", user |-> <<>>,
              isLoading |-> TRUE, error |-> FALSE, retryCount |-> 0,
              closure |-> 0, fetches |-> 0, delays |-> <<>>,
              pathname |-> "/dashboard"]
IdleFlight ==
  [login |-> <<>>,
   init |-> [k \in InitCallers |-> [pc |-> "idle", exists |-> FALSE]],
   send |-> [k \in InitCallers |-> IdleSend],
   provider |-> Unmounted,
   upload |-> IdleUpload,
   removal |-> IdleRemoval,
   refresh |-> IdleRefresh]

Init ==
  /\ build \in [service : ServiceBuilds, qdrant : QdrantBuilds]
  /\ profiles = [u \in Users |-> NewProfile(u)]
  /\ files = {}
  /\ vectors = {}
  /\ collections = {}
  /\ now = 1
  /\ nextUuid = 1
  /\ messages = <<>>
  /\ last = NoCall
  /\ run = IdleRun
  /\ inflight = IdleFlight

Record(r, trimLen) ==
  /\ profiles' = r.w.profiles
  /\ files' = r.w.files
  /\ vectors' = r.w.vectors
  /\ collections' = r.w.collections
  /\ nextUuid' = r.w.nextUuid
  /\ messages' = r.w.messages
  /\ last' = [op |-> r.res.op, user |-> r.res.user, status |-> r.res.status,
              error |-> r.res.error, calls |-> r.res.calls,
              storagePath |-> r.res.storagePath, trimLen |-> trimLen,
              data |-> r.res.data, prompt |-> r.res.prompt,
              results |-> r.res.results, query |-> r.res.query]

\* a call that runs from its first await to its return with nothing between
Commit(r, trimLen) ==
  /\ Record(r, trimLen)
  /\ run' = run
  /\ inflight' = inflight

ResumeFields(p) == <<p.resume_url, p.resume_text, p.qdrant_point_id>>
Cleared(p) == ResumeFields(p) = <<NullUrl, NullText, NullId>>

\* Inputs that cannot change what a call does are fixed to one value: the
\* file and the later steps when the role check rejects the call, the later
\* steps when the text is rejected, the file content when it is never parsed.
AllOk == PlanOf("none", TRUE, TRUE)
AnyPdf == CHOOSE pdf \in Pdfs : pdf.ok /\ TrimLen(pdf.text) >= MinTextLen
AnyName == CHOOSE fileName \in FileNames : TRUE
Rejected(pdf) == ~pdf.ok \/ TrimLen(pdf.text) < MinTextLen
AfterParse(f) ==
  /\ f["initColl"] /\ f["embed"] /\ f["upsert"] /\ f["update"] /\ f["vecDelete"]

ProcessInputs(b, userId, pdf, fileName, f) ==
  IF ~f["profileRead"] \/ ~IsCandidate(profiles[userId])
    THEN /\ pdf = AnyPdf /\ fileName = AnyName
         /\ f \in {AllOk, PlanOf("profileRead", TRUE, TRUE)}
  ELSE IF b.service = "part_004"
    THEN Rejected(pdf) => (f = AllOk /\ fileName = AnyName)
  ELSE IF ~f["upload"] THEN pdf = AnyPdf /\ f["fileRemove"]
  ELSE IF ~f["signedUrl"] \/ ~f["download"] THEN pdf = AnyPdf
  ELSE Rejected(pdf) => AfterParse(f)

DeleteInputs(userId, f) ==
  IF ~f["profileRead"] \/ Cleared(profiles[userId])
    THEN f \in {AllOk, PlanOf("profileRead", TRUE, TRUE)}
    ELSE TRUE

ProcessResume ==
  /\ now <= MaxTime
  /\ \E userId \in Users :
     \E f \in (IF IsCandidate(profiles[userId]) THEN ProcessPlans(build)
               ELSE {AllOk, PlanOf("profileRead", TRUE, TRUE)}) :
     \E pdf \in (IF f["profileRead"] /\ IsCandidate(profiles[userId])
                   THEN Pdfs ELSE {AnyPdf}),
        fileName \in (IF f["profileRead"] /\ IsCandidate(profiles[userId])
                        THEN FileNames ELSE {AnyName}) :
       /\ ProcessInputs(build, userId, pdf, fileName, f)
       /\ LET r == IF build.service = "part_004"
                     THEN processResume(build, World, userId, pdf, fileName, f)
                     ELSE processResumeSvc(build, World, userId, pdf, fileName, f)
              \* the text length is known only once the PDF was parsed
              parsed == \E i \in 1..Len(r.res.calls) :
                          r.res.calls[i] = Call("pdfParse", TRUE)
          IN Commit(r, IF parsed THEN TrimLen(pdf.text) ELSE 0)
  /\ now' = now + 1
  /\ UNCHANGED build

DeleteResumeForUser ==
  /\ \E userId \in Users :
     \E f \in (IF Cleared(profiles[userId])
                THEN {AllOk, PlanOf("profileRead", TRUE, TRUE)} ELSE DeletePlans) :
       /\ DeleteInputs(userId, f)
       /\ Commit(deleteResumeForUser(World, userId, f), 0)
  /\ UNCHANGED <<build, now>>

Next == ProcessResume \/ DeleteResumeForUser

Spec == Init /\ [][Next]_vars

(***************************************************************************)
(* Search and chat, started from the stores as successful uploads leave    *)
(* them.  An account deleted by the administrator takes its profile row    *)
(* with it (profiles.id ... ON DELETE CASCADE) and leaves its vector.      *)
(***************************************************************************)
ChatSteps == {"profileRead", "chatRead", "userInsert", "initColl", "embed",
              "embedVector", "search", "fetch", "apiKey", "llm", "llmText",
              "update", "aiInsert", "fallbackInsert"}
ChatPlanOf(failAt, aiInsert, fallbackInsert) ==
  [s \in ChatSteps |-> IF s = "aiInsert" THEN aiInsert
                       ELSE IF s = "fallbackInsert" THEN fallbackInsert
                       ELSE s # failAt]
SendPlans ==
  {ChatPlanOf(s, ai, fb) :
     s \in (ChatSteps \ {"profileRead", "update", "aiInsert", "fallbackInsert"})
            \cup {"none"},
     ai \in BOOLEAN, fb \in BOOLEAN}
\* The plans that differ for one call of sendMessage: nothing is called for
\* an anonymous caller, only the chat lookup for a chat of someone else; the
\* outcome of an insert matters only where that insert is reached.
SendPlansFor(caller, chatId) ==
  IF caller = Anon THEN {ChatPlanOf("none", TRUE, TRUE)}
  ELSE IF ChatOwner[chatId] # caller
    THEN {ChatPlanOf(s, TRUE, TRUE) : s \in {"chatRead", "none"}}
  ELSE {f \in SendPlans :
          /\ (~f["chatRead"] \/ ~f["userInsert"])
                => (f["aiInsert"] /\ f["fallbackInsert"])
          /\ (~f["llm"] \/ ~f["llmText"]) => f["aiInsert"]
          /\ (\E st \in {"initColl", "embed", "embedVector", "search", "fetch",
                          "apiKey"} : ~f[st]) => f["fallbackInsert"]
          /\ f["aiInsert"] => (f["fallbackInsert"] \/ ~f["llm"] \/ ~f["llmText"])}
\* whether a plan lets the vector search answer, so that its hits are read
SearchAnswers(f) ==
  f["chatRead"] /\ f["userInsert"] /\ f["initColl"] /\ f["embed"]
    /\ f["embedVector"] /\ f["search"]
SearchPlans ==
  {ChatPlanOf(s, TRUE, TRUE) :
     s \in {"profileRead", "initColl", "embed", "embedVector", "search", "fetch",
            "none"}}
UpdatePlans == {ChatPlanOf(s, TRUE, TRUE) : s \in {"update", "none"}}
\* the users that switch role through PUT /api/profile
RoleChangers == {"c1"}

EmptyWorld ==
  [profiles |-> [u \in Users |-> NewProfile(u)], files |-> {}, vectors |-> {},
   collections |-> {}, now |-> 1, nextUuid |-> 1, messages |-> <<>>]

GoodPdf == [ok |-> TRUE, text |-> <<50, 0>>]

\* the stores after each user of seq uploaded a resume, nothing failing
RECURSIVE Ingested(_, _)
Ingested(b, seq) ==
  IF seq = <<>> THEN EmptyWorld
  ELSE LET w == Ingested(b, SubSeq(seq, 1, Len(seq) - 1))
           r == processResume(b, w, seq[Len(seq)], GoodPdf, <<"cv.pdf">>,
                              PlanOf("none", TRUE, TRUE))
       IN [r.w EXCEPT !.now = @ + 1]

InitChat ==
  \E b \in [service : {"part_004"}, qdrant : QdrantBuilds],
     S \in SUBSET Candidates, gone \in SUBSET {"c2"} :
    LET w == Ingested(b, SelectSeq(UserOrder, LAMBDA u : u \in S)) IN
    /\ gone \subseteq S
    /\ build = b
    /\ profiles = [u \in Users \ gone |-> w.profiles[u]]
    /\ files = w.files
    /\ vectors = w.vectors
    /\ collections = w.collections
    /\ now = w.now
    /\ nextUuid = w.nextUuid
    /\ messages = <<>>
    /\ last = NoCall
  /\ run = IdleRun
  /\ inflight = IdleFlight

SearchCandidateResumes ==
  /\ \E recruiterId \in DOMAIN profiles, query \in Queries, limit \in Limits,
        f \in SearchPlans, hits \in Hits(vectors) :
       Commit(WithQuery(searchCandidateResumes(build, World, recruiterId, query,
                                               limit, f, hits), query), 0)
  /\ UNCHANGED <<build, now>>

SendMessage ==
  /\ Len(messages) + 2 <= MaxMsgs
  /\ \E caller \in DOMAIN profiles \cup {Anon}, chatId \in Chats,
        message \in Messages :
     \E f \in SendPlansFor(caller, chatId) :
     \E hits \in (IF SearchAnswers(f) /\ caller # Anon /\ ChatOwner[chatId] = caller
                    THEN Hits(vectors)
                    ELSE {CHOOSE h \in Hits(vectors) : TRUE}),
        aiTime \in (IF f["chatRead"] /\ f["userInsert"] /\ caller # Anon
                         /\ ChatOwner[chatId] = caller
                      THEN {now, now + 1} ELSE {now}),
        detail \in (IF f["fetch"] THEN {"timeout"} ELSE ErrMsgs) :
       /\ Commit(WithQuery(sendMessage(build, World, caller, chatId, message, f,
                                       hits, detail, aiTime), message), 0)
       \* the clock is read only to stamp messages
       /\ now' = IF messages' # messages THEN aiTime ELSE now
  /\ UNCHANGED build

UpdateUserProfile ==
  /\ \E userId \in RoleChangers, role \in {Candidate, Recruiter},
        f \in UpdatePlans :
       Commit(updateUserProfile(World, userId, [role |-> role], f), 0)
  /\ UNCHANGED <<build, now>>

NextSearch == SearchCandidateResumes \/ UpdateUserProfile

SpecSearch == InitChat /\ [][NextSearch]_vars

NextChat == SendMessage \/ UpdateUserProfile

SpecChat == InitChat /\ [][NextChat]_vars

(***************************************************************************)
(* One searchResumes call followed await by await.  The QdrantClient is    *)
(* built with timeout: 5000, so each of its requests ends by itself; the   *)
(* OpenAI client of utils/qdrant is built without one.  part_001 arms a    *)
(* 7 s timer that aborts an AbortController whose signal no call receives. *)
(***************************************************************************)
RunStores ==
  <<build, profiles, files, vectors, now, nextUuid, messages, last, inflight>>

\* the finally block: clearTimeout(timeout)
Returned(result) ==
  [run EXCEPT !.pc = "returned", !.result = result,
              !.timer = IF @ = "armed" THEN "cleared" ELSE @]

\* searchResumes is entered: the timer is armed (part_001), an empty query
\* returns at once (part_001), otherwise initializeCollection starts
SearchBegins ==
  /\ run.pc = "idle"
  /\ \E query \in Queries, limit \in Limits :
       LET armed == [IdleRun EXCEPT !.query = query, !.limit = limit,
                                    !.timer = IF build.qdrant = "part_001"
                                                THEN "armed" ELSE "off"]
       IN run' = IF build.qdrant = "part_001" /\ Trim(query) = ""
                   THEN [armed EXCEPT !.pc = "returned", !.timer = "cleared"]
                   ELSE [armed EXCEPT !.pc = "getCollections"]
  /\ UNCHANGED <<RunStores, collections>>

\* a request of the QdrantClient completes, with an answer or an error
QdrantAnswers ==
  /\ run.pc \in {"getCollections", "createCollection", "search"}
  /\ \E ok \in BOOLEAN, hits \in Hits(vectors) :
       /\ run' =
            IF ~ok THEN Returned(<<>>)
            ELSE IF run.pc = "getCollections"
              THEN [run EXCEPT !.pc = IF "resumes" \in collections
                                       THEN "embedding" ELSE "createCollection"]
            ELSE IF run.pc = "createCollection"
              THEN [run EXCEPT !.pc = "embedding"]
            ELSE Returned([k \in 1..Len(Take(hits, run.limit)) |->
                             [userId |-> IF build.qdrant = "part_001"
                                           THEN hits[k].point.id
                                           ELSE hits[k].point.userId,
                              similarity |-> hits[k].score]])
       /\ collections' = IF ok /\ run.pc = "createCollection"
                           THEN collections \cup {"resumes"} ELSE collections
  /\ UNCHANGED RunStores

\* the QdrantClient gives up on a request after its own timeout
QdrantClientTimesOut ==
  /\ run.pc \in {"getCollections", "createCollection", "search"}
  /\ run' = Returned(<<>>)
  /\ UNCHANGED <<RunStores, collections>>

\* openai.embeddings.create completes: a vector, an empty vector or an error
EmbeddingAnswers ==
  /\ run.pc = "embedding"
  /\ \E ok \in BOOLEAN, vector \in BOOLEAN :
       run' = IF ~ok THEN Returned(<<>>)
              ELSE IF ~vector /\ build.qdrant = "part_001" THEN Returned(<<>>)
              ELSE [run EXCEPT !.pc = "search"]
  /\ UNCHANGED <<RunStores, collections>>

\* setTimeout(() => controller.abort(), CONTROLLER_TIMEOUT_MS) fires
ControllerAborts ==
  /\ run.timer = "armed"
  /\ run' = [run EXCEPT !.timer = "fired", !.aborted = TRUE]
  /\ UNCHANGED <<RunStores, collections>>

\* the caller has the answer; the next call may start
SearchEnds ==
  /\ run.pc = "returned"
  /\ run' = IdleRun
  /\ UNCHANGED <<RunStores, collections>>

NextRun ==
  \/ SearchBegins \/ QdrantAnswers \/ QdrantClientTimesOut
  \/ EmbeddingAnswers \/ ControllerAborts \/ SearchEnds

\* Timers fire and the QdrantClient's requests end; nothing makes the
\* embedding request end.
SpecRun ==
  /\ InitChat /\ [][NextRun]_vars
  /\ WF_vars(ControllerAborts)
  /\ WF_vars(QdrantAnswers \/ QdrantClientTimesOut)

(***************************************************************************)
(* api/services/profileService.updateProfileAfterLogin, await by await:    *)
(* the row is read, merged with the new data and written back whole, while *)
(* the resume service may run between the read and the write.              *)
(***************************************************************************)
LoginUsers == {"c1"}

\* { ...existingProfile, ...safeProfileData, updated_at }
MergedProfile(existingProfile, profileData) ==
  [existingProfile EXCEPT !.role = profileData.role]

\* the update of updateProfileAfterLogin: the merged row is written
updateProfileAfterLogin(w, userId, existingProfile, profileData, f) ==
  LET calls == <<Call("profiles.select", TRUE), Call("profiles.update", f["update"])>>
  IN
  IF ~f["update"] \/ ~HasProfile(w, userId)
    THEN RespData("updateProfileAfterLogin", w, userId, 500,
                  "Failed to update profile after login", calls, <<>>)
    ELSE RespData("updateProfileAfterLogin",
                  [w EXCEPT !.profiles[userId] =
                              MergedProfile(existingProfile, profileData)],
                  userId, 200, "", calls, <<>>)

\* the select of updateProfileAfterLogin: an error returns 500, a row is
\* kept by the request until its update
LoginReads ==
  /\ inflight.login = <<>>
  /\ \E userId \in LoginUsers, role \in {Candidate, Recruiter}, ok \in BOOLEAN :
       IF ok /\ HasProfile(World, userId)
         THEN /\ inflight' = [inflight EXCEPT !.login =
                                <<[user |-> userId,
                                   existingProfile |-> profiles[userId],
                                   profileData |-> [role |-> role]]>>]
              /\ UNCHANGED <<profiles, files, vectors, collections, nextUuid,
                             messages, last, run>>
         ELSE /\ Record(RespData("updateProfileAfterLogin", World, userId, 500,
                                 "Failed to retrieve existing profile",
                                 <<Call("profiles.select", FALSE)>>, <<>>), 0)
              /\ UNCHANGED <<run, inflight>>
  /\ UNCHANGED <<build, now>>

LoginWrites ==
  /\ inflight.login # <<>>
  /\ \E f \in UpdatePlans :
       LET req == inflight.login[1] IN
       Record(updateProfileAfterLogin(World, req.user, req.existingProfile,
                                      req.profileData, f), 0)
  /\ inflight' = [inflight EXCEPT !.login = <<>>]
  /\ UNCHANGED <<build, now, run>>

\* every account still has its profile row
InitLogin == InitChat /\ DOMAIN profiles = Users

NextLogin ==
  \/ ProcessResume \/ DeleteResumeForUser \/ UpdateUserProfile
  \/ LoginReads \/ LoginWrites

SpecLogin == InitLogin /\ [][NextLogin]_vars

(***************************************************************************)
(* utils/qdrant initializeCollection, await by await, called by requests   *)
(* that run at the same time.  Qdrant is reachable; what it answers to a   *)
(* createCollection for a name that exists is not fixed by this code, so   *)
(* both answers are allowed.                                               *)
(***************************************************************************)
OtherStores ==
  <<build, profiles, files, vectors, now, nextUuid, messages, last, run>>

SetInit(k, st) == [inflight EXCEPT !.init[k] = st]

\* const collections = await qdrantClient.getCollections()
InitLists(k) ==
  /\ inflight.init[k].pc = "idle"
  /\ inflight' = SetInit(k, [pc |-> "listed", exists |-> "resumes" \in collections])
  /\ UNCHANGED <<OtherStores, collections>>

\* if (!exists) await qdrantClient.createCollection("resumes", ...)
InitCreates(k) ==
  /\ inflight.init[k].pc = "listed"
  /\ IF inflight.init[k].exists
       THEN /\ inflight' = SetInit(k, [pc |-> "done", exists |-> TRUE])
            /\ UNCHANGED collections
       ELSE \E conflict \in BOOLEAN :
              IF "resumes" \in collections /\ conflict
                THEN \* the request is refused; the catch block rethrows
                     /\ inflight' = SetInit(k, [pc |-> "failed", exists |-> FALSE])
                     /\ UNCHANGED collections
                ELSE /\ inflight' = SetInit(k, [pc |-> "done", exists |-> FALSE])
                     /\ collections' = collections \cup {"resumes"}
  /\ UNCHANGED OtherStores

\* the caller goes on (or handles the error); it may call again later
InitReturns(k) ==
  /\ inflight.init[k].pc \in {"done", "failed"}
  /\ inflight' = SetInit(k, [pc |-> "idle", exists |-> FALSE])
  /\ UNCHANGED <<OtherStores, collections>>

NextInit == \E k \in InitCallers : InitLists(k) \/ InitCreates(k) \/ InitReturns(k)

SpecInit == InitChat /\ [][NextInit]_vars

(***************************************************************************)
(* Two sendMessage requests of the owner on one chat, each followed from   *)
(* its user insert to its assistant insert.  Each insert is stamped with   *)
(* new Date() of the server at that moment; the clock is granted to have   *)
(* advanced between the two stamps of one request, which awaits the        *)
(* insert, the search and the model in between.                            *)
(***************************************************************************)
OverlapChat == "chat1"

SetSend(k, st) == [inflight EXCEPT !.send[k] = st]

Sending == {k \in InitCallers : inflight.send[k].pc # "idle"}

\* part_003: authentication, chat lookup and the insert of the user message
SendStarts(k) ==
  /\ inflight.send[k].pc = "idle"
  /\ Len(messages) + Cardinality(Sending) + 2 <= MaxMsgs + 2
  /\ \E message \in Messages, chatRead \in BOOLEAN, userInsert \in BOOLEAN :
       LET caller == ChatOwner[OverlapChat]
           f == [ChatPlanOf("none", TRUE, TRUE) EXCEPT
                   !["chatRead"] = chatRead, !["userInsert"] = userInsert]
           c2 == <<Call("auth.getUser", TRUE), Call("chats.select", TRUE),
                   Call("chat_messages.insert.user", TRUE)>>
           w1 == InsertMessage(World, OverlapChat, <<message>>, "user", now, TRUE)
       IN
       /\ chatRead \/ userInsert
       /\ IF chatRead /\ userInsert
            THEN /\ messages' = w1.messages
                 /\ inflight' =
                      SetSend(k, [pc |-> "shortlisting", message |-> message,
                                  stamp |-> now, calls |-> c2,
                                  data |-> UserMessageView(
                                             w1.messages[Len(w1.messages)],
                                             message)])
                 /\ UNCHANGED <<profiles, files, vectors, collections, nextUuid,
                                last>>
            ELSE /\ Record(WithQuery(sendMessage(build, World, caller, OverlapChat,
                                                 message, f, <<>>, "timeout", now),
                                     message), 0)
                 /\ inflight' = inflight
  /\ UNCHANGED <<build, now, run>>

\* part_003: the try block and its catch, ending with the assistant insert
SendFinishes(k) ==
  /\ inflight.send[k].pc = "shortlisting"
  /\ now > inflight.send[k].stamp
  /\ LET req == inflight.send[k]
         caller == ChatOwner[OverlapChat] IN
     \E f \in {g \in SendPlansFor(caller, OverlapChat) :
                 g["chatRead"] /\ g["userInsert"]} :
     \E hits \in (IF SearchAnswers(f) THEN Hits(vectors)
                  ELSE {CHOOSE h \in Hits(vectors) : TRUE}),
        detail \in (IF f["fetch"] THEN {"timeout"} ELSE ErrMsgs) :
       Record(WithQuery(Shortlist(build, World, caller, OverlapChat, req.message,
                                  f, hits, detail, now, req.calls, req.data),
                        req.message), 0)
  /\ inflight' = SetSend(k, IdleSend)
  /\ UNCHANGED <<build, now, run>>

\* the server clock moves on by one millisecond
ClockTicks ==
  /\ now < MaxTime + Cardinality(Candidates)
  /\ now' = now + 1
  /\ UNCHANGED <<build, profiles, files, vectors, collections, nextUuid,
                 messages, last, run, inflight>>

NextOverlap ==
  \/ \E k \in InitCallers : SendStarts(k)
  \/ \E k \in InitCallers : SendFinishes(k)
  \/ ClockTicks

SpecOverlap == InitChat /\ [][NextOverlap]_vars

(***************************************************************************)
(* The UserProvider of one browser tab.  refreshUser is called by the      *)
(* mount effect, whose dependency list is empty, and by its own timer:     *)
(* both run the function of the first render, which closed over the        *)
(* retryCount of that render.                                              *)
(***************************************************************************)
maxRetries == 3

\* Math.pow(2, retryCount) * 1000
Backoff(retryCount) == (2 ^ retryCount) * 1000

SetProvider(st) == [inflight EXCEPT !.provider = st]

OtherThanProvider ==
  <<build, profiles, files, vectors, collections, now, nextUuid, messages,
    last, run>>

\* the pages the tab can be opened on
Pathnames == {"/dashboard", "/select-role"}

\* useEffect(() => { refreshUser() }, []) : setIsLoading(true), then the fetch
ProviderMounts ==
  /\ inflight.provider.pc = "unmounted"
  /\ \E viewer \in Users, pathname \in Pathnames :
       inflight' = SetProvider([inflight.provider EXCEPT
                                  !.pc = "fetching", !.viewer = viewer,
                                  !.pathname = pathname,
                                  !.isLoading = TRUE,
                                  !.closure = inflight.provider.retryCount,
                                  !.fetches = 1])
  /\ UNCHANGED OtherThanProvider

\* the try block: the fetch answered
FetchSucceeds ==
  /\ inflight.provider.pc = "fetching"
  /\ LET p == inflight.provider IN
     inflight' = SetProvider([p EXCEPT
                                !.pc = "loaded",
                                !.user = IF HasProfile(World, p.viewer)
                                           THEN <<profiles[p.viewer]>> ELSE <<>>,
                                !.error = FALSE, !.retryCount = 0,
                                !.delays = <<>>, !.isLoading = FALSE])
  /\ UNCHANGED OtherThanProvider

\* the catch block: setError, then a timer while the retryCount the function
\* closed over is below maxRetries; finally setIsLoading(false)
FetchFails ==
  /\ inflight.provider.pc = "fetching"
  /\ LET p == inflight.provider IN
     inflight' =
       SetProvider(IF p.closure < maxRetries
                     THEN [p EXCEPT !.pc = "waiting", !.error = TRUE,
                                    !.retryCount = @ + 1,
                                    !.delays = Append(@, Backoff(p.closure)),
                                    !.isLoading = FALSE]
                     ELSE [p EXCEPT !.pc = "stopped", !.error = TRUE,
                                    !.isLoading = FALSE])
  /\ UNCHANGED OtherThanProvider

\* setTimeout(refreshUser, delay) fires: the same function runs again
TimerFires ==
  /\ inflight.provider.pc = "waiting"
  /\ inflight.provider.fetches < MaxFetches
  /\ inflight' = SetProvider([inflight.provider EXCEPT
                                !.pc = "fetching", !.isLoading = TRUE,
                                !.fetches = @ + 1])
  /\ UNCHANGED OtherThanProvider

NextProvider == ProviderMounts \/ FetchSucceeds \/ FetchFails \/ TimerFires

SpecProvider == InitChat /\ [][NextProvider]_vars

(***************************************************************************)
(* Role selection: the redirect effect of the UserProvider, the            *)
(* select-role page and PUT /api/profile behind its updateUser.            *)
(***************************************************************************)
\* PUT /api/profile: updateProfileSchema.parse(body) drops the keys the schema
\* does not name, and sanitizedData is built from name, role and the links
sanitizedData(body) == [role |-> body.role]

PutProfile(w, userId, body, f) ==
  updateUserProfile(w, userId, sanitizedData(body), f)

\* the effect of the provider: a loaded user whose role_selected is not true
\* is sent to /select-role
RedirectEffect ==
  /\ LET p == inflight.provider IN
     /\ ~p.isLoading /\ p.pathname # "/select-role" /\ p.user # <<>>
     /\ p.user[1].role_selected # TRUE
     /\ inflight' = SetProvider([p EXCEPT !.pathname = "/select-role"])
  /\ UNCHANGED OtherThanProvider

\* the select-role page sends a user whose role_selected is set to /dashboard
SelectPageRedirects ==
  /\ LET p == inflight.provider IN
     /\ ~p.isLoading /\ p.pathname = "/select-role" /\ p.user # <<>>
     /\ p.user[1].role_selected
     /\ inflight' = SetProvider([p EXCEPT !.pathname = "/dashboard"])
  /\ UNCHANGED OtherThanProvider

\* handleRoleSelection: updateUser({ role, role_selected: true }), setUser with
\* the answer, then router.push("/dashboard"); a failed request is caught on
\* the page
HandleRoleSelection ==
  /\ LET p == inflight.provider IN
     /\ p.pc # "unmounted" /\ ~p.isLoading /\ p.pathname = "/select-role"
     /\ IF p.user = <<>> THEN TRUE ELSE ~p.user[1].role_selected
     /\ \E role \in {Candidate, Recruiter}, f \in UpdatePlans :
          LET r == PutProfile(World, p.viewer,
                              [role |-> role, role_selected |-> TRUE], f) IN
          /\ Record(r, 0)
          /\ inflight' =
               SetProvider(IF r.res.status = 200
                             THEN [p EXCEPT !.user = <<r.w.profiles[p.viewer]>>,
                                            !.pathname = "/dashboard"]
                             ELSE [p EXCEPT !.error = TRUE])
  /\ UNCHANGED <<build, now, run>>

NextSelect ==
  \/ ProviderMounts \/ FetchSucceeds \/ FetchFails \/ TimerFires
  \/ RedirectEffect \/ SelectPageRedirects \/ HandleRoleSelection

SpecSelect == InitChat /\ [][NextSelect]_vars

(***************************************************************************)
(* One processResume and one deleteResumeForUser of the same candidate,    *)
(* each followed from one await to the next; every request they send is    *)
(* answered successfully, so only the order of the steps varies.           *)
(***************************************************************************)
Racer == "c1"

NoFailure == PlanOf("none", TRUE, TRUE)

SetUpload(st) == [inflight EXCEPT !.upload = st]
SetRemoval(st) == [inflight EXCEPT !.removal = st]

\* processResume: the profile read, the role check and the text extraction
UploadReads ==
  /\ inflight.upload.pc = "idle"
  /\ HasProfile(World, Racer) /\ IsCandidate(profiles[Racer])
  /\ inflight' = SetUpload([inflight.upload EXCEPT
                              !.pc = "checked", !.resumeText = GoodPdf.text])
  /\ UNCHANGED <<build, profiles, files, vectors, collections, now, nextUuid,
                 messages, last, run>>

\* processResume: storage.upload under `${userId}/${Date.now()}_${fileName}`
UploadStores ==
  /\ inflight.upload.pc = "checked"
  /\ LET storagePath == StoragePath(Racer, now, <<"cv.pdf">>) IN
     /\ files' = files \cup {storagePath}
     /\ inflight' = SetUpload([inflight.upload EXCEPT
                                 !.pc = "uploaded", !.storagePath = storagePath])
  /\ UNCHANGED <<build, profiles, vectors, collections, now, nextUuid,
                 messages, last, run>>

\* processResume: storeResume (collection check, embedding, upsert)
UploadIndexes ==
  /\ inflight.upload.pc = "uploaded"
  /\ LET s == StoreResume(build, World, Racer, NoFailure) IN
     /\ vectors' = s.w.vectors
     /\ collections' = s.w.collections
     /\ nextUuid' = s.w.nextUuid
     /\ inflight' = SetUpload([inflight.upload EXCEPT
                                 !.pc = "stored", !.qdrantPointId = s.pointId])
  /\ UNCHANGED <<build, profiles, files, now, messages, last, run>>

\* processResume: the profile update and the 200
UploadWrites ==
  /\ inflight.upload.pc = "stored"
  /\ LET u == inflight.upload IN
     profiles' = SetResume(World, Racer, PublicUrl(u.storagePath), u.resumeText,
                           u.qdrantPointId).profiles
  /\ inflight' = SetUpload([inflight.upload EXCEPT !.pc = "returned"])
  /\ UNCHANGED <<build, files, vectors, collections, now, nextUuid, messages,
                 last, run>>

\* deleteResumeForUser: the profile read; 404 when it shows no resume
RemovalReads ==
  /\ inflight.removal.pc = "idle"
  /\ HasProfile(World, Racer)
  /\ LET qdrantPointId == profiles[Racer].qdrant_point_id
         resumeUrl == profiles[Racer].resume_url IN
     inflight' =
       SetRemoval(IF qdrantPointId = NullId /\ resumeUrl = NullUrl
                    THEN [IdleRemoval EXCEPT !.pc = "returned", !.status = 404]
                    ELSE [pc |-> "read", qdrantPointId |-> qdrantPointId,
                          resumeUrl |-> resumeUrl, status |-> 0])
  /\ UNCHANGED <<build, profiles, files, vectors, collections, now, nextUuid,
                 messages, last, run>>

\* deleteResumeForUser: deleteResume(qdrantPointId) when there is a point id
RemovalUnindexes ==
  /\ inflight.removal.pc = "read"
  /\ LET r == inflight.removal IN
     vectors' = IF r.qdrantPointId # NullId
                  THEN deleteResume(World, r.qdrantPointId, NoFailure).w.vectors
                  ELSE vectors
  /\ inflight' = SetRemoval([inflight.removal EXCEPT !.pc = "unindexed"])
  /\ UNCHANGED <<build, profiles, files, collections, now, nextUuid, messages,
                 last, run>>

\* deleteResumeForUser: storage.remove of the path cut from the URL
RemovalUnlinks ==
  /\ inflight.removal.pc = "unindexed"
  /\ LET r == inflight.removal
         path == PathFromUrl(r.resumeUrl) IN
     files' = IF r.resumeUrl # NullUrl /\ path # <<>>
                THEN StorageRemove(World, path, NoFailure).w.files
                ELSE files
  /\ inflight' = SetRemoval([inflight.removal EXCEPT !.pc = "unlinked"])
  /\ UNCHANGED <<build, profiles, vectors, collections, now, nextUuid, messages,
                 last, run>>

\* deleteResumeForUser: the profile update that clears the fields, and the 200
RemovalWrites ==
  /\ inflight.removal.pc = "unlinked"
  /\ profiles' = SetResume(World, Racer, NullUrl, NullText, NullId).profiles
  /\ inflight' = SetRemoval([inflight.removal EXCEPT
                               !.pc = "returned", !.status = 200])
  /\ UNCHANGED <<build, files, vectors, collections, now, nextUuid, messages,
                 last, run>>

\* Date.now() moves on while the requests run
RaceClockTicks ==
  /\ now < MaxTime + Cardinality(Candidates)
  /\ inflight.upload.pc # "returned" \/ inflight.removal.pc # "returned"
  /\ now' = now + 1
  /\ UNCHANGED <<build, profiles, files, vectors, collections, nextUuid,
                 messages, last, run, inflight>>

NextRace ==
  \/ UploadReads \/ UploadStores \/ UploadIndexes \/ UploadWrites
  \/ RemovalReads \/ RemovalUnindexes \/ RemovalUnlinks \/ RemovalWrites
  \/ RaceClockTicks

SpecRace == InitChat /\ [][NextRace]_vars

(***************************************************************************)
(* profileService.getUserProfile followed through its signed-URL refresh:  *)
(* the profile read, createSignedUrl, the profile update.  Other requests  *)
(* are served between these awaits.                                        *)
(***************************************************************************)
\* storage.createSignedUrl(path, 3600).signedUrl, as its pathname segments
SignedUrl(storagePath) ==
  <<"storage", "v1", "object", "sign", "resumes">> \o storagePath

\* resume_url.match(/\/resumes\/([^?]+)\?token=.*[&?]e=(\d+)/)
IsSignedUrl(url) == Len(url) > 5 /\ url[4] = "sign"

SetRefresh(st) == [inflight EXCEPT !.refresh = st]

\* the select; the refresh goes on for a URL that is not signed, or is signed
\* and expires within ten minutes
ProfileReads ==
  /\ inflight.refresh.pc = "idle"
  /\ \E userId \in Candidates, expiring \in BOOLEAN :
       /\ HasProfile(World, userId)
       /\ LET resume_url == profiles[userId].resume_url IN
          /\ resume_url # NullUrl
          /\ IsSignedUrl(resume_url) => expiring
          /\ inflight' = SetRefresh([pc |-> "read", user |-> userId,
                                     resume_url |-> resume_url])
  /\ UNCHANGED <<build, profiles, files, vectors, collections, now, nextUuid,
                 messages, last, run>>

\* createSignedUrl: storage signs the path of an object it holds; without a
\* signed URL the call returns the URL it read
ProfileSigns ==
  /\ inflight.refresh.pc = "read"
  /\ \E ok \in BOOLEAN :
       LET r == inflight.refresh
           storagePath == UrlTarget(r.resume_url) IN
       inflight' =
         SetRefresh(IF ok /\ storagePath \in files
                      THEN [r EXCEPT !.pc = "signed",
                                     !.resume_url = SignedUrl(storagePath)]
                      ELSE IdleRefresh)
  /\ UNCHANGED <<build, profiles, files, vectors, collections, now, nextUuid,
                 messages, last, run>>

\* update({ resume_url, updated_at }).eq("id", data.id), its result not read
ProfileWrites ==
  /\ inflight.refresh.pc = "signed"
  /\ \E ok \in BOOLEAN :
       LET r == inflight.refresh IN
       profiles' = IF ok /\ HasProfile(World, r.user)
                     THEN [profiles EXCEPT ![r.user].resume_url = r.resume_url]
                     ELSE profiles
  /\ inflight' = SetRefresh(IdleRefresh)
  /\ UNCHANGED <<build, files, vectors, collections, now, nextUuid, messages,
                 last, run>>

NextRefresh ==
  \/ DeleteResumeForUser
  \/ ProfileReads \/ ProfileSigns \/ ProfileWrites

SpecRefresh == InitLogin /\ [][NextRefresh]_vars

(***************************************************************************)
(* Properties of the resume pipeline                                       *)
(***************************************************************************)
Did(calls, name, ok) == \E i \in 1..Len(calls) : calls[i] = Call(name, ok)
Tried(calls, name) == Did(calls, name, TRUE) \/ Did(calls, name, FALSE)


\* C1: after any sequence of completed processResume and deleteResumeForUser
\* calls, a profile's qdrant_point_id is non-null exactly when a vector point
\* of that candidate exists in the index.
C1_PointIdIffVector ==
  \A u \in Users : (profiles[u].qdrant_point_id # NullId) <=> HasVector(vectors, u)

\* C2: when embedding generation or the vector upsert fails inside
\* processResume after the upload, the file uploaded by this call is gone from
\* storage and the profile's resume fields are what they were before.
C2_StoreFailureRollsBack ==
  [][(/\ last'.op = "processResume"
      /\ Did(last'.calls, "storage.upload", TRUE)
      /\ (Did(last'.calls, "openai.embeddings", FALSE)
            \/ Did(last'.calls, "qdrant.upsert", FALSE)))
     => /\ last'.storagePath \notin files'
        /\ ResumeFields(profiles'[last'.user]) = ResumeFields(profiles[last'.user])]_vars

\* C4: when deleteResumeForUser returns 200 the profile's resume fields are
\* null and neither the candidate's vector point nor the file the profile
\* referred to still exists.
C4_DeleteOkRemovesAll ==
  [][(last'.op = "deleteResumeForUser" /\ last'.status = 200)
     => /\ Cleared(profiles'[last'.user])
        /\ ~HasVector(vectors', last'.user)
        /\ (profiles[last'.user].resume_url # NullUrl
              => UrlTarget(profiles[last'.user].resume_url) \notin files')]_vars

\* C5: when processResume returns 200 the three resume fields are set, the
\* file exists at the path resume_url refers to and a vector point exists
\* under the candidate's own id.
C5_ProcessOkConsistent ==
  (last.op = "processResume" /\ last.status = 200)
    => LET p == profiles[last.user] IN
       /\ p.resume_url # NullUrl /\ p.resume_text # NullText
       /\ p.qdrant_point_id # NullId
       /\ UrlTarget(p.resume_url) \in files
       /\ \E v \in vectors : v.id = last.user

\* C6: after a successful processResume the index holds exactly one point of
\* that candidate and its point id is the candidate's profile id.
C6_OnePointKeyedByUser ==
  (last.op = "processResume" /\ last.status = 200)
    => /\ Cardinality({v \in vectors : v.userId = last.user}) = 1
       /\ \A v \in vectors : v.userId = last.user => v.id = last.user

\* C7: when the final profile update of processResume fails, both the vector
\* delete and the file delete are attempted and the call returns 500 with the
\* profile-update error, whatever the cleanup deletes did.
C7_UpdateFailureCleansBoth ==
  (last.op = "processResume" /\ Did(last.calls, "profiles.update", FALSE))
    => /\ Tried(last.calls, "qdrant.delete")
       /\ Tried(last.calls, "storage.remove")
       /\ last.status = 500
       /\ last.error = "Failed to update profile with resume information"

\* C8: when the extracted text is shorter than MinTextLen after trimming,
\* processResume returns 400 and wrote nothing to storage, to the vector
\* index or to the profile during the call.
Wrote(calls) ==
  {name \in {"storage.upload", "qdrant.createCollection", "qdrant.upsert",
             "profiles.update"} : Did(calls, name, TRUE)}

C8_ShortTextWritesNothing ==
  (/\ last.op = "processResume"
   /\ Did(last.calls, "pdfParse", TRUE)
   /\ last.trimLen < MinTextLen)
    => last.status = 400 /\ Wrote(last.calls) = {}

\* C9: in deleteResumeForUser for a user that has a resume, the profile
\* update is reached whatever the vector delete and the file delete did, and
\* it alone decides the outcome: the resume fields are cleared and the status
\* is 200 when it succeeds, whether or not a cleanup delete failed.
C9_CleanupNeverBlocksClear ==
  [][(/\ last'.op = "deleteResumeForUser"
      /\ Did(last'.calls, "profiles.select", TRUE)
      /\ ~Cleared(profiles[last'.user]))
     => /\ Tried(last'.calls, "profiles.update")
        /\ Did(last'.calls, "profiles.update", TRUE)
             => Cleared(profiles'[last'.user]) /\ last'.status = 200
        /\ Did(last'.calls, "profiles.update", FALSE)
             => last'.status = 500]_vars

\* a deletion that returned 200 and cleared the profile although both cleanup
\* deletes failed
C9_Witness ==
  /\ last.op = "deleteResumeForUser"
  /\ Did(last.calls, "qdrant.delete", FALSE)
  /\ Did(last.calls, "storage.remove", FALSE)
  /\ last.status = 200
  /\ Cleared(profiles[last.user])
(***************************************************************************)
(* Properties of search and chat                                           *)
(***************************************************************************)
\* C3: every sendMessage that persisted the user message has left exactly one
\* assistant message after it in that chat when it returns.
C3_ExactlyOneAssistant ==
  (last.op = "sendMessage" /\ Did(last.calls, "chat_messages.insert.user", TRUE))
    => LET um == last.data[1] IN
       Cardinality({i \in (um.id + 1)..Len(messages) :
                      /\ messages[i].chat_id = um.chatId
                      /\ messages[i].role = "assistant"}) = 1

\* C10: when the query embedding, the vector search or the profile fetch
\* fails, searchCandidateResumes answers 200 with an empty candidate list.
C10_SearchFailureIsEmptySuccess ==
  (/\ last.op = "searchCandidateResumes"
   /\ \/ Did(last.calls, "openai.embeddings", FALSE)
      \/ Did(last.calls, "qdrant.search", FALSE)
      \/ Did(last.calls, "profiles.in", FALSE))
    => last.status = 200 /\ last.error = "" /\ last.data = <<>>

\* the candidate profiles the fetch of searchCandidateResumes returns for the
\* matched ids
FetchedCandidates(results) ==
  {u \in DOMAIN profiles : profiles[u].role = Candidate /\ u \in UserIds(results)}

\* C11: when the profile fetch succeeds, searchCandidateResumes returns
\* exactly the fetched candidate profiles, once each, each with a score the
\* vector search gave for its own id, in descending score order; a matched id
\* without a fetched profile is absent.
C11_JoinedInScoreOrder ==
  (last.op = "searchCandidateResumes" /\ Did(last.calls, "profiles.in", TRUE))
    => LET d == last.data
           res == last.results IN
       /\ last.status = 200
       /\ {d[k].id : k \in 1..Len(d)} = FetchedCandidates(res)
       /\ Len(d) = Cardinality(FetchedCandidates(res))
       /\ \A k \in 1..Len(d) :
            \E j \in 1..Len(res) : /\ res[j].userId = d[k].id
                                   /\ res[j].similarity = d[k].similarity
       /\ \A k, m \in 1..Len(d) : k < m => d[k].similarity >= d[m].similarity

\* two matches with different scores, the better one without a fetched
\* profile: the answer is the other one alone, with its own lower score
C11_Witness ==
  /\ last.op = "searchCandidateResumes"
  /\ last.status = 200
  /\ Len(last.results) = 2
  /\ last.results[1].similarity > last.results[2].similarity
  /\ Len(last.data) = 1
  /\ last.data[1].id = last.results[2].userId
  /\ last.data[1].similarity = last.results[2].similarity

\* the calls searchResumes makes to the embedding generator or the vector index
ExternalSearchCalls(calls) ==
  {name \in {"qdrant.getCollections", "qdrant.createCollection",
             "openai.embeddings", "qdrant.search"} : Tried(calls, name)}

\* C12: searchResumes called with an empty or whitespace-only query answers
\* the empty list and calls neither the embedding generator nor the vector
\* index.
C12_EmptyQueryNoExternalCall ==
  (/\ last.op = "searchCandidateResumes"
   /\ last.status # 403
   /\ Trim(last.query) = "")
    => last.results = <<>> /\ last.data = <<>> /\ ExternalSearchCalls(last.calls) = {}

\* the search, profile fetch and LLM calls of sendMessage
ProcessingCalls ==
  {"qdrant.getCollections", "qdrant.createCollection", "openai.embeddings",
   "qdrant.search", "profiles.in", "openai.chat"}

\* C13: in sendMessage every search, profile fetch or LLM call comes after the
\* successful insert of the user's message; when that insert fails the call
\* returns an error, makes none of those calls and writes no message.
C13_UserMessageFirst ==
  [][last'.op = "sendMessage"
     => LET calls == last'.calls IN
        /\ \A i \in 1..Len(calls) :
             calls[i][1] \in ProcessingCalls
               => \E j \in 1..(i - 1) :
                    calls[j] = Call("chat_messages.insert.user", TRUE)
        /\ Did(calls, "chat_messages.insert.user", FALSE)
             => /\ last'.status = 500
                /\ last'.data = <<>>
                /\ \A i \in 1..Len(calls) : calls[i][1] \notin ProcessingCalls
                /\ ~Tried(calls, "chat_messages.insert.assistant")
                /\ messages' = messages]_vars

\* a sendMessage whose user insert failed
C13_Witness ==
  /\ last.op = "sendMessage"
  /\ Did(last.calls, "chat_messages.insert.user", FALSE)
  /\ last.status = 500
  /\ \A i \in 1..Len(messages) : messages[i].role # "assistant"

\* C14: whenever the user message was persisted, sendMessage returns 201 with
\* that persisted message (same id, content, role and chat id), whichever
\* branch fired and whatever failed after the insert.
C14_ReturnsPersistedUserMessage ==
  (last.op = "sendMessage" /\ Did(last.calls, "chat_messages.insert.user", TRUE))
    => /\ last.status = 201
       /\ Len(last.data) = 1
       /\ \E i \in 1..Len(messages) :
            /\ messages[i].id = last.data[1].id
            /\ messages[i].content = last.data[1].content
            /\ messages[i].role = last.data[1].role
            /\ messages[i].chat_id = last.data[1].chatId
            /\ messages[i].role = "user"
            /\ messages[i].content = <<last.query>>

\* the LLM call failed and so did the write of the fallback assistant message,
\* and the call still answered 201 with the user message
C14_Witness ==
  /\ last.op = "sendMessage"
  /\ Did(last.calls, "openai.chat", FALSE)
  /\ Did(last.calls, "chat_messages.insert.assistant", FALSE)
  /\ last.status = 201
  /\ Len(last.data) = 1
  /\ messages[Len(messages)].id = last.data[1].id

\* C15: the candidate list of the shortlisting prompt has one entry for each
\* candidate profile returned for this request and no other entry, and each
\* entry carries only that candidate's name and profile link.
C15_PromptNameAndLinkOnly ==
  (last.op = "sendMessage" /\ Tried(last.calls, "openai.chat"))
    => LET listed == last.prompt[2]
           rows == FetchedProfiles(World, last.results) IN
       /\ Len(listed) = Len(rows)
       /\ \A k \in 1..Len(rows) :
            /\ listed[k].name = profiles[rows[k]].name
            /\ listed[k].profile_link = profiles[rows[k]].resume_url
            /\ DOMAIN listed[k] = {"name", "profile_link"}

\* the matched ids that resolve to a profile row of role candidate
CandidateRoleProfiles(results) ==
  {u \in UserIds(results) : u \in DOMAIN profiles /\ profiles[u].role = Candidate}

\* C16: sendMessage passes only candidate-role profiles on to the prompt; when
\* the matches resolve to no candidate-role profile the "profiles not found"
\* message is written and the LLM is not called.
C16_OnlyCandidateRoleShortlisted ==
  [][(/\ last'.op = "sendMessage"
      /\ Did(last'.calls, "profiles.in", TRUE))
     => /\ Tried(last'.calls, "openai.chat")
             => \A k \in 1..Len(last'.prompt[2]) :
                  \E u \in CandidateRoleProfiles(last'.results) :
                    last'.prompt[2][k].name = profiles[u].name
        /\ CandidateRoleProfiles(last'.results) = {}
             => /\ ~Tried(last'.calls, "openai.chat")
                /\ Did(last'.calls, "chat_messages.insert.assistant", TRUE)
                     => messages'[Len(messages')].content = MsgNoProfiles]_vars

\* the degraded assistant texts that say nothing about the cause
GenericTexts == {MsgNoCandidates, MsgNoProfiles, MsgGenericError}

\* C17: every degraded assistant message written by sendMessage is one of a
\* fixed set of generic texts: it carries no upstream error message and does
\* not tell whether the LLM credential is configured.
C17_DegradedTextIsGeneric ==
  \A i \in 1..Len(messages) :
    (messages[i].role = "assistant" /\ messages[i].content # <<LlmText>>)
      => /\ messages[i].content \in GenericTexts
         /\ \A d \in ErrMsgs, k \in 1..Len(messages[i].content) :
              messages[i].content[k] # d
         /\ messages[i].content # MsgNoApiKey

\* C18: searchResumes always eventually returns: when the embedding call or
\* the vector search never completes, the 7 s abort cuts the call off and it
\* returns the empty list.
C18_SearchResumesReturns ==
  (run.pc \notin {"idle", "returned"}) ~> (run.pc = "returned")

\* C19: a vector-index search is run only on behalf of a caller whose profile
\* role is recruiter, through searchCandidateResumes and through sendMessage
\* alike.
C19_SearchOnlyForRecruiters ==
  (/\ last.op \in {"searchCandidateResumes", "sendMessage"}
   /\ ExternalSearchCalls(last.calls) # {})
    => /\ last.user \in DOMAIN profiles
       /\ profiles[last.user].role = Recruiter

\* C20: processResume for a user whose profile cannot be read answers 404,
\* for a user whose role is not candidate 403, and in both cases uploads no
\* file, upserts no vector and updates no profile.
C20_NonCandidateRejected ==
  [][(/\ last'.op = "processResume"
      /\ \/ Did(last'.calls, "profiles.select", FALSE)
         \/ profiles[last'.user].role # Candidate)
     => /\ last'.status = IF Did(last'.calls, "profiles.select", FALSE)
                            THEN 404 ELSE 403
        /\ ~Tried(last'.calls, "storage.upload")
        /\ ~Tried(last'.calls, "qdrant.upsert")
        /\ ~Tried(last'.calls, "profiles.update")
        /\ files' = files /\ vectors' = vectors /\ profiles' = profiles]_vars

\* a recruiter's upload was refused with 403 after candidates had uploaded
C20_Witness ==
  /\ last.op = "processResume"
  /\ profiles[last.user].role = Recruiter
  /\ last.status = 403
  /\ last.calls = <<Call("profiles.select", TRUE)>>
  /\ files # {}

\* C21: updateUserProfile and updateProfileAfterLogin never change a
\* profile's resume_url, resume_text or qdrant_point_id, also when a
\* processResume or deleteResumeForUser for the same user ran in between.
C21_ProfileUpdatesKeepResume ==
  [][last'.op \in {"updateUserProfile", "updateProfileAfterLogin"}
     => \A u \in DOMAIN profiles :
          ResumeFields(profiles'[u]) = ResumeFields(profiles[u])]_vars

\* C22: initializeCollection creates the collection only when it is absent,
\* and any number of calls, concurrent ones included, leave the collection
\* in place and raise no error.
C22_InitializeCollectionIdempotent ==
  \A k \in InitCallers :
    /\ inflight.init[k].pc # "failed"
    /\ inflight.init[k].pc = "done" => "resumes" \in collections

\* C23: the role checks of the core grant access only on a role the user
\* confirmed (role_selected is true): processResume goes past its candidate
\* check only for such a profile.
C23_UnconfirmedRoleGrantsNothing ==
  (last.op = "processResume" /\ Len(last.calls) > 1)
    => profiles[last.user].role_selected

\* the messages of a chat, as positions in the table
InChat(chatId) == {i \in 1..Len(messages) : messages[i].chat_id = chatId}

\* C24: within a chat no two messages share a created_at, and the assistant
\* message a sendMessage call wrote is stamped strictly later than the user
\* message of that call, also when calls on the chat overlap.
C24_StrictCreationOrder ==
  /\ \A c \in Chats : \A i, j \in InChat(c) :
       i # j => messages[i].created_at # messages[j].created_at
  /\ (/\ last.op = "sendMessage" /\ last.status = 201
      /\ messages # <<>>
      /\ messages[Len(messages)].role = "assistant")
       => messages[Len(messages)].created_at > last.data[1].createdAt

C26_RaceLeavesConsistent ==
  (inflight.upload.pc = "returned" /\ inflight.removal.pc = "returned")
    => /\ (profiles[Racer].qdrant_point_id # NullId) <=> HasVector(vectors, Racer)
       /\ profiles[Racer].resume_url # NullUrl
            => UrlTarget(profiles[Racer].resume_url) \in files

\* the resume of user u is whole: the profile names a point and a file, and
\* both exist
Intact(prof, vecs, fls, u) ==
  /\ prof[u].qdrant_point_id # NullId
  /\ \E v \in vecs : v.id = prof[u].qdrant_point_id /\ v.userId = u
  /\ prof[u].resume_url # NullUrl
  /\ UrlTarget(prof[u].resume_url) \in fls

\* C27: a processResume that fails for a candidate whose earlier resume is
\* whole leaves that resume whole: its point and file still exist and the
\* profile still references them.
C27_FailureKeepsEarlierResume ==
  [][(/\ last'.op = "processResume"
      /\ last'.status # 200
      /\ HasProfile(World, last'.user)
      /\ Intact(profiles, vectors, files, last'.user))
     => /\ ResumeFields(profiles'[last'.user]) = ResumeFields(profiles[last'.user])
        /\ Intact(profiles', vectors', files', last'.user)]_vars

\* C28: after any sequence of completed processResume and deleteResumeForUser
\* calls, every file stored under a candidate's id is the file that the
\* candidate's resume_url refers to.
C28_NoLeftoverFiles ==
  \A path \in files : \A u \in DOMAIN profiles :
    Head(path) = u
      => /\ profiles[u].resume_url # NullUrl
         /\ UrlTarget(profiles[u].resume_url) = path

\* C29: the write of the refreshed signed URL never fills in a resume_url
\* that deleteResumeForUser cleared after getUserProfile read the profile.
C29_RefreshKeepsClearedUrl ==
  [][(/\ inflight.refresh.pc = "signed"
      /\ inflight'.refresh.pc = "idle"
      /\ last.op = "deleteResumeForUser" /\ last.status = 200
      /\ last.user = inflight.refresh.user
      /\ profiles[inflight.refresh.user].resume_url = NullUrl)
     => profiles'[inflight.refresh.user].resume_url = NullUrl]_vars

\* C30: when the user picked a role on the select-role page and the profile
\* update succeeded, the stored profile has role_selected = true (and so has
\* the user the provider holds, which keeps the redirect effect quiet).
C30_SelectionIsStored ==
  [][(/\ inflight.provider.pathname = "/select-role"
      /\ inflight'.provider.pathname = "/dashboard"
      /\ last'.op = "updateUserProfile" /\ last'.status = 200
      /\ last'.user = inflight.provider.viewer
      /\ profiles' # profiles \/ last' # last)
     => /\ profiles'[last'.user].role_selected
        /\ inflight'.provider.user[1].role_selected]_vars
====
